---- MODULE Spec2Model ----
(***************************************************************************)
(* A model of command_tracker.py: the CommandTracker object (its list of   *)
(* logged commands), the commands.json file it loads and rewrites, and the *)
(* operations log_command, get_stats, show_stats, show_top,                *)
(* search_commands and export_stats.                                       *)
(*                                                                         *)
(* Strings are sequences of one-character strings.  A file is modelled by  *)
(* the text it holds, cut into the pieces json.dump writes: the opening    *)
(* bracket, one piece per list item, the closing bracket.                  *)
(***************************************************************************)
EXTENDS Integers, Sequences, FiniteSets, TLC

(***************************************************************************)
(* Bounds of the model.                                                    *)
(***************************************************************************)
\* The retention cap of log_command (10000 in the source), scaled down.
Cap == 2
\* Readings of the wall clock are 0..MaxTime.
MaxTime == 2
\* Length of one day in clock units.
DayUnits == 1
\* The days argument ranges over -MaxDays..MaxDays and None.
MaxDays == 1
\* Raw input lines of the normalizer specification have at most this length.
MaxLineLen == 4
\* The n argument of show_top ranges over 0..MaxTop.
MaxTop == 1

\* Entries one tracker object appends, beyond the cap, before the model
\* stops counting them.
MaxAccepted == Cap + 1

\* The readings of datetime.now().  Each call reads the local wall clock,
\* and the reading is an input of the operation that calls it.  Local time
\* moves forward, and is set back when daylight saving time ends or the
\* clock is corrected, so a reading may be lower than an earlier one.
Times == 0..MaxTime

(***************************************************************************)
(* Strings.                                                                *)
(***************************************************************************)
Chars == {" ", "1", "a", "A"}

IsSpace(c) == c = " "

IsDigit(c) == c = "1"

\* str.lower()
Lower(s) == [i \in 1..Len(s) |-> IF s[i] = "A" THEN "a" ELSE s[i]]

\* s[from:], 1-based.
DropTo(s, from) == SubSeq(s, from, Len(s))

\* Length of the run of spaces s[i], s[i+1], ... counted from n.
RECURSIVE LeadingSpaces(_, _)
LeadingSpaces(s, n) ==
    IF n < Len(s) /\ IsSpace(s[n + 1]) THEN LeadingSpaces(s, n + 1) ELSE n

RECURSIVE LeadingDigits(_, _)
LeadingDigits(s, n) ==
    IF n < Len(s) /\ IsDigit(s[n + 1]) THEN LeadingDigits(s, n + 1) ELSE n

RECURSIVE LeadingNonSpaces(_, _)
LeadingNonSpaces(s, n) ==
    IF n < Len(s) /\ ~IsSpace(s[n + 1]) THEN LeadingNonSpaces(s, n + 1) ELSE n

RECURSIVE TrailingSpaces(_, _)
TrailingSpaces(s, n) ==
    IF n < Len(s) /\ IsSpace(s[Len(s) - n]) THEN TrailingSpaces(s, n + 1) ELSE n

\* str.lstrip()
LStrip(s) == DropTo(s, LeadingSpaces(s, 0) + 1)

\* str.strip(), as str.lstrip() then str.rstrip().
Strip(s) ==
    LET l == LStrip(s)
    IN  SubSeq(l, 1, Len(l) - TrailingSpaces(l, 0))

\* re.sub(r'^\s*\d+\s+', '', s): the match is a run of spaces, a non-empty
\* run of digits and a non-empty run of spaces, at the start of s.  The
\* runs are greedy, and no shorter run of digits can match, since the
\* character after a cut-short run of digits is a digit.
RemoveHistoryNumber(s) ==
    LET sp == LeadingSpaces(s, 0)
        r1 == DropTo(s, sp + 1)
        dg == LeadingDigits(r1, 0)
        r2 == DropTo(r1, dg + 1)
        ws == LeadingSpaces(r2, 0)
    IN  IF dg >= 1 /\ ws >= 1 THEN DropTo(r2, ws + 1) ELSE s

\* command.split()[0] if command.split() else command
FirstWord(command) ==
    LET l == LStrip(command)
    IN  IF l = <<>> THEN command ELSE SubSeq(l, 1, LeadingNonSpaces(l, 0))

\* query in text (substring test).
Contains(text, query) ==
    \E i \in 1..(Len(text) + 1) :
        /\ i + Len(query) - 1 <= Len(text)
        /\ SubSeq(text, i, i + Len(query) - 1) = query

(***************************************************************************)
(* Timestamps: datetime.isoformat() and datetime.fromisoformat().  A       *)
(* datetime is a number of clock units; its text has a date part and a     *)
(* time-of-day part.                                                       *)
(***************************************************************************)
Isoformat(t) == [date |-> t \div DayUnits, time |-> t % DayUnits]

FromIsoformat(s) == s.date * DayUnits + s.time

\* timedelta(days=days)
Timedelta(days) == days * DayUnits

(***************************************************************************)
(* log_command, up to the entry it builds.                                 *)
(***************************************************************************)
\* command_line = command_line.strip()
StrippedLine(command_line) == Strip(command_line)

\* command = re.sub(...).strip()
CommandOf(command_line) == Strip(RemoveHistoryNumber(StrippedLine(command_line)))

\* Entry, its command taken from the line before it is stripped.
EntryFromRawLine(command_line, t) ==
    [command      |-> Strip(RemoveHistoryNumber(command_line)),
     base_command |-> FirstWord(CommandOf(command_line)),
     timestamp    |-> Isoformat(t),
     full_command |-> StrippedLine(command_line)]

\* The entry dictionary.
Entry(command_line, t) ==
    [command      |-> CommandOf(command_line),
     base_command |-> FirstWord(CommandOf(command_line)),
     timestamp    |-> Isoformat(t),
     full_command |-> StrippedLine(command_line)]

\* Truncate, keeping the oldest entries: self.commands[:10000].
TruncateKeepsOldest(cmds) ==
    IF Len(cmds) > Cap THEN SubSeq(cmds, 1, Cap) ELSE cmds

\* if len(self.commands) > 10000: self.commands = self.commands[-10000:]
Truncate(cmds) ==
    IF Len(cmds) > Cap THEN SubSeq(cmds, Len(cmds) - Cap + 1, Len(cmds)) ELSE cmds

(***************************************************************************)
(* The file commands.json: json.dump and json.load.                        *)
(***************************************************************************)
NoFile == [exists |-> FALSE, head |-> "", items |-> <<>>, tail |-> ""]

\* open(path, 'w'): the file exists and is empty.
EmptyFile == [exists |-> TRUE, head |-> "", items |-> <<>>, tail |-> ""]

\* The complete text json.dump(cmds, f, indent=2) produces.
JsonDump(cmds) == [exists |-> TRUE, head |-> "[", items |-> cmds, tail |-> "]"]

\* WriteNext, closing the list one item early.
WriteNextDropsLast(f, cmds) ==
    IF f.head = "" THEN [f EXCEPT !.head = "["]
    ELSE IF Len(f.items) < Len(cmds) - 1
         THEN [f EXCEPT !.items = Append(f.items, cmds[Len(f.items) + 1])]
         ELSE [f EXCEPT !.tail = "]"]

\* The text of f after one more piece of JsonDump(cmds) reaches it.
WriteNext(f, cmds) ==
    IF f.head = "" THEN [f EXCEPT !.head = "["]
    ELSE IF Len(f.items) < Len(cmds)
         THEN [f EXCEPT !.items = Append(f.items, cmds[Len(f.items) + 1])]
         ELSE [f EXCEPT !.tail = "]"]

\* json.load(f): a list, a dict (the text of a JSON object), or
\* json.JSONDecodeError.
JsonLoad(f) ==
    IF f.head = "[" /\ f.tail = "]"
    THEN [type |-> "list", commands |-> f.items]
    ELSE IF f.head = "{" /\ f.tail = "}"
         THEN [type |-> "dict", commands |-> <<>>]
         ELSE [type |-> "JSONDecodeError", commands |-> <<>>]

\* LoadCommands, catching the decode error and starting from an empty list.
LoadCommandsSilent(f) ==
    IF f.exists /\ JsonLoad(f).type # "JSONDecodeError"
    THEN JsonLoad(f)
    ELSE [type |-> "list", commands |-> <<>>]

\* load_commands: what self.commands becomes, or the exception raised.
LoadCommands(f) ==
    IF f.exists THEN JsonLoad(f) ELSE [type |-> "list", commands |-> <<>>]

(***************************************************************************)
(* get_stats.                                                              *)
(***************************************************************************)
\* The days argument: None, or an integer.
None == [given |-> FALSE, d |-> 0]

Days(d) == [given |-> TRUE, d |-> d]

DaysArgs == {None} \cup {Days(d) : d \in (0 - MaxDays)..MaxDays}

\* if days: (None and 0 are false)
Truthy(days) == days.given /\ days.d # 0

\* cutoff = datetime.now() - timedelta(days=days)
Cutoff(t, days) == t - Timedelta(days.d)

\* InWindow, with a strict comparison.
InWindowStrict(c, cutoff) == FromIsoformat(c.timestamp) > cutoff

\* The test of the list comprehension that filters by days.
InWindow(c, cutoff) == FromIsoformat(c.timestamp) >= cutoff

\* commands_to_analyze
CommandsToAnalyze(cmds, t, days) ==
    IF Truthy(days)
    THEN SelectSeq(cmds, LAMBDA c : InWindow(c, Cutoff(t, days)))
    ELSE cmds

\* dict(Counter(key(c) for c in cmds)), for key = base_command.
BaseCommandCounts(cmds) ==
    [b \in {cmds[i].base_command : i \in DOMAIN cmds} |->
        Cardinality({i \in DOMAIN cmds : cmds[i].base_command = b})]

\* dict(Counter(key(c) for c in cmds)), for key = command.
FullCommandCounts(cmds) ==
    [b \in {cmds[i].command : i \in DOMAIN cmds} |->
        Cardinality({i \in DOMAIN cmds : cmds[i].command = b})]

\* The loop that fills last_used, from item i on; acc is last_used so far.
RECURSIVE LastUsedFrom(_, _, _)
LastUsedFrom(cmds, i, acc) ==
    IF i > Len(cmds) THEN acc
    ELSE LET base == cmds[i].base_command
             timestamp == FromIsoformat(cmds[i].timestamp)
         IN  IF base \notin DOMAIN acc
             THEN LastUsedFrom(cmds, i + 1, (base :> timestamp) @@ acc)
             ELSE IF timestamp > acc[base]
                  THEN LastUsedFrom(cmds, i + 1, [acc EXCEPT ![base] = timestamp])
                  ELSE LastUsedFrom(cmds, i + 1, acc)

EmptyDict == [x \in {} |-> 0]

LastUsed(cmds) ==
    LET lu == LastUsedFrom(cmds, 1, EmptyDict)
    IN  [b \in DOMAIN lu |-> Isoformat(lu[b])]

\* The dictionary get_stats returns, the clock reading t.
GetStats(cmds, t, days) ==
    LET analyzed == CommandsToAnalyze(cmds, t, days)
    IN  [total_commands       |-> Len(analyzed),
         unique_base_commands |-> Cardinality(DOMAIN BaseCommandCounts(analyzed)),
         base_command_counts  |-> BaseCommandCounts(analyzed),
         full_command_counts  |-> FullCommandCounts(analyzed),
         last_used            |-> LastUsed(analyzed),
         period_days          |-> days]

\* Position of key's first occurrence: the insertion order of a Counter.
FirstIndex(cmds, key) ==
    CHOOSE i \in DOMAIN cmds :
        /\ cmds[i].base_command = key
        /\ \A j \in 1..(i - 1) : cmds[j].base_command # key

\* sorted(counts.items(), key=lambda x: x[1], reverse=True): by count,
\* descending; the sort is stable, so equal counts keep insertion order.
SortedByCount(cmds) ==
    LET counts == BaseCommandCounts(cmds)
        Before(a, b) ==
            \/ counts[a] > counts[b]
            \/ counts[a] = counts[b] /\ FirstIndex(cmds, a) < FirstIndex(cmds, b)
        Rank(a) == Cardinality({b \in DOMAIN counts : Before(b, a)})
    IN  [k \in 1..Cardinality(DOMAIN counts) |->
            LET b == CHOOSE b \in DOMAIN counts : Rank(b) = k - 1
            IN  [cmd |-> b, count |-> counts[b]]]

\* s[:n] for n >= 0
Take(s, n) == SubSeq(s, 1, IF n < Len(s) THEN n ELSE Len(s))

(***************************************************************************)
(* search_commands and export_stats: what they print or write.             *)
(***************************************************************************)
\* Code points, as far as their order matters to sorted().
CharOrd(c) == CASE c = " " -> 32 [] c = "1" -> 49 [] c = "A" -> 65 [] OTHER -> 97

\* a < b for strings
RECURSIVE StrLess(_, _)
StrLess(a, b) ==
    IF b = <<>> THEN FALSE
    ELSE IF a = <<>> THEN TRUE
    ELSE IF a[1] # b[1] THEN CharOrd(a[1]) < CharOrd(b[1])
    ELSE StrLess(Tail(a), Tail(b))

\* sorted(set_of_strings)
SortedStrings(S) ==
    [k \in 1..Cardinality(S) |->
        CHOOSE x \in S : Cardinality({y \in S : StrLess(y, x)}) = k - 1]

\* The list comprehension of search_commands.
Matching(cmds, query) ==
    SelectSeq(cmds, LAMBDA c :
        \/ Contains(Lower(c.command), Lower(query))
        \/ Contains(Lower(c.base_command), Lower(query)))

\* What search_commands prints: the groups, by size; of each the first five
\* of its distinct commands, and how many more there are.
SearchOutput(cmds, query) ==
    LET matching == Matching(cmds, query)
        groups == SortedByCount(matching)
        Unique(base) ==
            {matching[i].command :
                i \in {j \in DOMAIN matching : matching[j].base_command = base}}
    IN  [k \in DOMAIN groups |->
            [base        |-> groups[k].cmd,
             occurrences |-> groups[k].count,
             shown       |-> Take(SortedStrings(Unique(groups[k].cmd)), 5),
             more        |-> IF Cardinality(Unique(groups[k].cmd)) > 5
                             THEN Cardinality(Unique(groups[k].cmd)) - 5
                             ELSE 0]]

Formats == {"json", "csv", "text"}

\* percentage, in hundredths, as '.2f' rounds it.
Percentage(count, total) ==
    IF total > 0 THEN (count * 20000 + total) \div (2 * total) ELSE 0

\* The rows of the CSV export.
CsvRows(cmds) ==
    LET stats == GetStats(cmds, 0, None)
        sorted_commands == SortedByCount(cmds)
    IN  [k \in DOMAIN sorted_commands |->
            [cmd        |-> sorted_commands[k].cmd,
             count      |-> sorted_commands[k].count,
             percentage |-> Percentage(sorted_commands[k].count, stats.total_commands),
             last       |-> stats.last_used[sorted_commands[k].cmd]]]

\* output, the text export_stats produces; t is the clock reading.
ExportOutput(cmds, format_type, t) ==
    [exists |-> TRUE,
     head   |-> CASE format_type = "json" -> "{"
                  [] format_type = "csv" -> "Command,Count,Percentage,Last Used"
                  [] OTHER -> "{'",
     items  |-> IF format_type = "csv" THEN CsvRows(cmds)
                ELSE IF format_type = "json"
                     THEN <<[statistics  |-> GetStats(cmds, t, None),
                             export_date |-> Isoformat(t)]>>
                     ELSE <<GetStats(cmds, t, None)>>,
     tail   |-> IF format_type = "csv" THEN "" ELSE "}"]

\* The output_file argument: None, some other path, the path of commands.json.
OutputFiles == {"", "export.out", "commands.json"}

(***************************************************************************)
(* State.                                                                  *)
(***************************************************************************)
VARIABLES
    proc,          \* "off": no tracker object; "idle": between calls; "saving":
                   \* inside save_commands; "returned": a call has just ended
    commandsType,  \* type of self.commands: "none" (no object), "list", "dict"
    commands,      \* self.commands, when a list
    file,          \* commands.json
    accepted,      \* history: the Cap most recent of the entries loaded and accepted
    nAccepted,     \* history: how many entries were loaded and accepted (counted to MaxAccepted)
    before,        \* history: self.commands before the append being saved
    lastOp,        \* the last operation called, its arguments and what it raised
    out            \* what the last operation returned, printed or wrote elsewhere

vars == <<proc, commandsType, commands, file, accepted, nAccepted, before, lastOp, out>>

NoOut == [kind |-> "none"]

\* t is the reading of datetime.now() the operation took, if it took one.
Op(op, raised) ==
    [op |-> op, raised |-> raised, line |-> <<>>, days |-> None, t |-> 0,
     output_file |-> ""]

\* The most recent Cap entries of a history.
MostRecent(history) ==
    [i \in 1..(IF Len(history) < Cap THEN Len(history) ELSE Cap) |->
        history[Len(history) - (IF Len(history) < Cap THEN Len(history) ELSE Cap) + i]]

Init ==
    /\ proc = "off"
    /\ commandsType = "none"
    /\ commands = <<>>
    /\ file = NoFile
    /\ accepted = <<>>
    /\ nAccepted = 0
    /\ before = <<>>
    /\ lastOp = Op("none", "")
    /\ out = NoOut

(***************************************************************************)
(* CommandTracker(data_dir): __init__ and load_commands.                   *)
(***************************************************************************)
Construct ==
    /\ proc = "off"
    /\ LET loaded == LoadCommands(file)
       IN  IF loaded.type = "JSONDecodeError"
           THEN /\ lastOp' = Op("__init__", "JSONDecodeError")
                /\ UNCHANGED <<proc, commandsType, commands, accepted, nAccepted>>
           ELSE /\ lastOp' = Op("__init__", "")
                /\ proc' = "returned"
                /\ commandsType' = loaded.type
                /\ commands' = loaded.commands
                /\ accepted' = MostRecent(loaded.commands)
                /\ nAccepted' = Len(loaded.commands)
    /\ out' = NoOut
    /\ UNCHANGED <<file, before>>

\* The caller has the result of the call, or has handled what it raised;
\* the tracker object awaits the next call.
Return ==
    /\ proc = "returned"
    /\ proc' = "idle"
    /\ lastOp' = Op("none", "")
    /\ out' = NoOut
    /\ UNCHANGED <<commandsType, commands, file, accepted, nAccepted, before>>

\* The process ends, and with it the tracker object.
Exit ==
    /\ proc = "idle"
    /\ proc' = "off"
    /\ commandsType' = "none"
    /\ commands' = <<>>
    /\ accepted' = <<>>
    /\ nAccepted' = 0
    /\ lastOp' = Op("exit", "")
    /\ out' = NoOut
    /\ UNCHANGED <<file, before>>

(***************************************************************************)
(* log_command.                                                            *)
(***************************************************************************)
\* if not command: return
LogBlank(command_line) ==
    /\ proc = "idle"
    /\ CommandOf(command_line) = <<>>
    /\ lastOp' = [Op("log_command", "") EXCEPT !.line = command_line]
    /\ out' = NoOut
    /\ proc' = "returned"
    /\ UNCHANGED <<commandsType, commands, file, accepted, nAccepted, before>>

\* self.commands is a dict: self.commands.append raises AttributeError.
LogOnDict(command_line) ==
    /\ proc = "idle"
    /\ CommandOf(command_line) # <<>>
    /\ commandsType = "dict"
    /\ lastOp' = [Op("log_command", "AttributeError") EXCEPT !.line = command_line]
    /\ out' = NoOut
    /\ proc' = "returned"
    /\ UNCHANGED <<commandsType, commands, file, accepted, nAccepted, before>>

\* The entry is appended, the list cut to the cap, and save_commands opens
\* the file for writing, which empties it.  t is the clock's reading.
LogAppend(command_line, t) ==
    /\ proc = "idle"
    /\ CommandOf(command_line) # <<>>
    /\ commandsType = "list"
    /\ commands' = Truncate(Append(commands, Entry(command_line, t)))
    /\ accepted' = MostRecent(Append(accepted, Entry(command_line, t)))
    /\ nAccepted' = IF nAccepted < MaxAccepted THEN nAccepted + 1 ELSE nAccepted
    /\ before' = commands
    /\ file' = EmptyFile
    /\ proc' = "saving"
    /\ lastOp' = [Op("log_command", "") EXCEPT !.line = command_line, !.t = t]
    /\ out' = [kind |-> "stored"]
    /\ UNCHANGED commandsType

\* json.dump writes the next piece; after the last one the file is closed
\* and log_command returns.
SaveWrite ==
    /\ proc = "saving"
    /\ file' = WriteNext(file, commands)
    /\ proc' = IF file'.tail = "]" THEN "returned" ELSE "saving"
    /\ before' = IF file'.tail = "]" THEN <<>> ELSE before
    /\ UNCHANGED <<commandsType, commands, accepted, nAccepted, lastOp, out>>

\* A write fails (disk full): OSError leaves save_commands and log_command;
\* the file keeps what reached it.
SaveFail ==
    /\ proc = "saving"
    /\ proc' = "returned"
    /\ before' = <<>>
    /\ lastOp' = [lastOp EXCEPT !.raised = "OSError"]
    /\ UNCHANGED <<commandsType, commands, file, accepted, nAccepted, out>>

\* The process is killed inside save_commands.
Crash ==
    /\ proc = "saving"
    /\ proc' = "off"
    /\ commandsType' = "none"
    /\ commands' = <<>>
    /\ accepted' = <<>>
    /\ nAccepted' = 0
    /\ before' = <<>>
    /\ lastOp' = Op("crash", "")
    /\ out' = NoOut
    /\ UNCHANGED file

(***************************************************************************)
(* The operations that read the list.  On a dict, iterating yields its     *)
(* keys, and indexing a key by 'base_command' raises TypeError.            *)
(***************************************************************************)
\* The rows show_stats and show_top print.
Rows(cmds, t, days, n) ==
    LET analyzed == CommandsToAnalyze(cmds, t, days)
        stats == GetStats(cmds, t, days)
        sorted_commands == Take(SortedByCount(analyzed), n)
    IN  [k \in DOMAIN sorted_commands |->
            [cmd        |-> sorted_commands[k].cmd,
             count      |-> sorted_commands[k].count,
             percentage |-> Percentage(sorted_commands[k].count, stats.total_commands),
             last       |-> stats.last_used[sorted_commands[k].cmd]]]

\* get_stats reads the clock only if days is true; t is 0 when it does not.
ReadsClock(days, t) == Truthy(days) \/ t = 0

\* GetStatsCall, the filtered list assigned to self.commands.
GetStatsCallFiltersInPlace(days, t) ==
    /\ proc = "idle"
    /\ ReadsClock(days, t)
    /\ commandsType = "list"
    /\ lastOp' = [Op("get_stats", "") EXCEPT !.days = days, !.t = t]
    /\ out' = [kind |-> "stats", stats |-> GetStats(commands, t, days)]
    /\ commands' = CommandsToAnalyze(commands, t, days)
    /\ proc' = "returned"
    /\ UNCHANGED <<commandsType, file, accepted, nAccepted, before>>

GetStatsCall(days, t) ==
    /\ proc = "idle"
    /\ ReadsClock(days, t)
    /\ IF commandsType = "dict"
       THEN /\ lastOp' = [Op("get_stats", "TypeError") EXCEPT !.days = days, !.t = t]
            /\ out' = NoOut
       ELSE /\ lastOp' = [Op("get_stats", "") EXCEPT !.days = days, !.t = t]
            /\ out' = [kind |-> "stats", stats |-> GetStats(commands, t, days)]
    /\ proc' = "returned"
    /\ UNCHANGED <<commandsType, commands, file, accepted, nAccepted, before>>

ShowStats(days, t) ==
    /\ proc = "idle"
    /\ ReadsClock(days, t)
    /\ IF commandsType = "dict"
       THEN /\ lastOp' = [Op("show_stats", "TypeError") EXCEPT !.days = days, !.t = t]
            /\ out' = NoOut
       ELSE /\ lastOp' = [Op("show_stats", "") EXCEPT !.days = days, !.t = t]
            /\ out' = [kind  |-> "printed",
                       stats |-> GetStats(commands, t, days),
                       rows  |-> Rows(commands, t, days, 20)]
    /\ proc' = "returned"
    /\ UNCHANGED <<commandsType, commands, file, accepted, nAccepted, before>>

ShowTop(n, days, t) ==
    /\ proc = "idle"
    /\ ReadsClock(days, t)
    /\ IF commandsType = "dict"
       THEN /\ lastOp' = [Op("show_top", "TypeError") EXCEPT !.days = days, !.t = t]
            /\ out' = NoOut
       ELSE /\ lastOp' = [Op("show_top", "") EXCEPT !.days = days, !.t = t]
            /\ out' = [kind |-> "printed", n |-> n, rows |-> Rows(commands, t, days, n)]
    /\ proc' = "returned"
    /\ UNCHANGED <<commandsType, commands, file, accepted, nAccepted, before>>

Queries == {<<"A">>, <<"1">>}

SearchCommands(query) ==
    /\ proc = "idle"
    /\ IF commandsType = "dict"
       THEN /\ lastOp' = [Op("search_commands", "TypeError") EXCEPT !.line = query]
            /\ out' = NoOut
       ELSE /\ lastOp' = [Op("search_commands", "") EXCEPT !.line = query]
            /\ out' = [kind |-> "printed", groups |-> SearchOutput(commands, query)]
    /\ proc' = "returned"
    /\ UNCHANGED <<commandsType, commands, file, accepted, nAccepted, before>>

\* export_stats: output is printed, or written to output_file by
\* open(output_file, 'w') and f.write(output).  Only the json format reads
\* the clock; t is 0 for the others.
ExportStats(format_type, output_file, t) ==
    /\ proc = "idle"
    /\ format_type = "json" \/ t = 0
    /\ IF commandsType = "dict"
       THEN /\ lastOp' = [Op("export_stats", "TypeError") EXCEPT !.output_file = output_file]
            /\ out' = NoOut
            /\ UNCHANGED file
       ELSE /\ lastOp' = [Op("export_stats", "") EXCEPT !.output_file = output_file, !.t = t]
            /\ IF output_file = ""
               THEN /\ out' = [kind   |-> "printed",
                               output |-> ExportOutput(commands, format_type, t)]
                    /\ UNCHANGED file
               ELSE IF output_file = "commands.json"
                    THEN /\ out' = [kind |-> "printed", exported_to |-> output_file]
                         /\ file' = ExportOutput(commands, format_type, t)
                    ELSE /\ out' = [kind        |-> "written",
                                    exported_to |-> output_file,
                                    text        |-> ExportOutput(commands, format_type, t)]
                         /\ UNCHANGED file
    /\ proc' = "returned"
    /\ UNCHANGED <<commandsType, commands, accepted, nAccepted, before>>

(***************************************************************************)
(* Specifications.                                                         *)
(***************************************************************************)
\* The lines logged: with a history number and spaces around, without,
\* blank, and empty.
LogLines ==
    { <<" ", "1", " ", "a", " ">>, <<"A", " ", "1">>, <<" ">>, <<>> }

\* The days passed to show_stats and show_top.
ShowDays == {None, Days(1)}

Next ==
    \/ Construct
    \/ Return
    \/ Exit
    \/ \E command_line \in LogLines : LogBlank(command_line)
    \/ \E command_line \in LogLines : LogOnDict(command_line)
    \/ \E command_line \in LogLines, t \in Times : LogAppend(command_line, t)
    \/ SaveWrite
    \/ SaveFail
    \/ Crash
    \/ \E days \in DaysArgs, t \in Times : GetStatsCall(days, t)
    \/ \E days \in ShowDays, t \in Times : ShowStats(days, t)
    \/ \E n \in 0..MaxTop, days \in ShowDays, t \in Times : ShowTop(n, days, t)
    \/ \E query \in Queries : SearchCommands(query)
    \/ \E format_type \in Formats, output_file \in OutputFiles, t \in Times :
          ExportStats(format_type, output_file, t)

Spec == Init /\ [][Next]_vars

\* Every line of at most MaxLineLen characters.
AllLines == UNION {[1..n -> Chars] : n \in 0..MaxLineLen}

\* The normalizer's specification: a tracker on an empty directory, and one
\* entry logged from any line; blank lines are logged before and after it.
LogFirst(command_line, t) == commands = <<>> /\ LogAppend(command_line, t)

NextNorm ==
    \/ Construct
    \/ Return
    \/ \E command_line \in AllLines : LogBlank(command_line)
    \/ \E command_line \in AllLines, t \in Times : LogFirst(command_line, t)
    \/ SaveWrite

SpecNorm == Init /\ [][NextNorm]_vars

\* One process: the tracker is constructed once, lines are logged and
\* statistics read; no write fails and nothing else touches the file.
NextSession ==
    \/ Construct
    \/ Return
    \/ \E command_line \in LogLines : LogBlank(command_line)
    \/ \E command_line \in LogLines, t \in Times : LogAppend(command_line, t)
    \/ SaveWrite
    \/ \E days \in DaysArgs, t \in Times : GetStatsCall(days, t)

SpecSession == Init /\ [][NextSession]_vars

(***************************************************************************)
(* The claims.                                                             *)
(***************************************************************************)
\* A log_command call has just returned, its entry stored and saved.
Stored ==
    /\ proc = "returned"
    /\ lastOp.op = "log_command"
    /\ lastOp.raised = ""
    /\ out.kind = "stored"

Timestamp(i) == FromIsoformat(commands[i].timestamp)

\* C1: the list never holds more than Cap entries; it is the Cap most
\* recent of the entries loaded and accepted, in the order they were
\* appended, and holds exactly Cap of them once more than Cap were accepted.
C1_Retention ==
    commandsType = "list" =>
        /\ Len(commands) <= Cap
        /\ commands = accepted
        /\ nAccepted > Cap => Len(commands) = Cap
        /\ nAccepted <= Cap => Len(commands) = nAccepted

\* An entry was appended to a full list, and the oldest one dropped.
C1_Witness ==
    /\ Stored
    /\ nAccepted > Cap
    /\ Len(commands) = Cap
    /\ commands[Cap] = Entry(lastOp.line, lastOp.t)
    /\ commands[1] # commands[Cap]

\* C2: at every point inside save_commands the file loads as the complete
\* list from before the append or as the complete list after it.
C2_AtomicSave ==
    proc = "saving" =>
        \/ LoadCommands(file) = [type |-> "list", commands |-> before]
        \/ LoadCommands(file) = [type |-> "list", commands |-> commands]

\* C3: when log_command has stored an entry and returned, loading the file
\* yields the list in memory, item for item; dumping and loading a list
\* yields it again.
C3_RoundTrip ==
    /\ Stored => LoadCommands(file) = [type |-> "list", commands |-> commands]
    /\ commandsType = "list" =>
           JsonLoad(JsonDump(commands)) = [type |-> "list", commands |-> commands]
    /\ JsonLoad(JsonDump(<<>>)) = [type |-> "list", commands |-> <<>>]

\* The entry was saved after the list had been cut to the cap.
C3_Witness ==
    /\ Stored
    /\ nAccepted > Cap
    /\ file.exists
    /\ file.items = commands
    /\ Len(file.items) = Cap

\* A file that exists and does not parse.
Corrupt(f) == f.exists /\ JsonLoad(f).type = "JSONDecodeError"

\* C4: a constructor that meets a file it cannot parse raises the decode
\* error: no tracker object and no list exist afterwards, and while none
\* exists the corrupt file stays as it is.
C4_CorruptLoadFails ==
    /\ [](lastOp.op = "__init__" /\ Corrupt(file) =>
             /\ lastOp.raised = "JSONDecodeError"
             /\ proc = "off"
             /\ commandsType = "none")
    /\ [][Corrupt(file) /\ proc = "off" => file' = file /\ proc' = "off"]_vars

\* The constructor has met an unparseable file.
C4_Witness ==
    /\ lastOp.op = "__init__"
    /\ lastOp.raised = "JSONDecodeError"
    /\ Corrupt(file)
    /\ file.head = "["

\* C5: get_stats with days zero or negative raises InvalidWindowError and
\* returns no statistics.
C5_NonPositiveWindowRejected ==
    (/\ proc = "returned"
     /\ lastOp.op = "get_stats"
     /\ commandsType = "list"
     /\ lastOp.days.given
     /\ lastOp.days.d <= 0) =>
        /\ lastOp.raised = "InvalidWindowError"
        /\ out.kind # "stats"

\* The line consists of spaces only, or is empty.
AllSpaces(line) == \A i \in DOMAIN line : line[i] = " "

C7_FullLineIsRaw ==
    Stored =>
        LET entry == commands[Len(commands)]
        IN  /\ entry.full_command = lastOp.line
            /\ entry.command = CommandOf(lastOp.line)
            /\ entry.base_command = FirstWord(entry.command)

\* The entries get_stats(days) called at clock reading t has to consider.
Considered(days, t) ==
    IF days.given
    THEN {i \in DOMAIN commands : Timestamp(i) >= t - days.d * DayUnits}
    ELSE DOMAIN commands

\* C8: with days positive, get_stats counts exactly the entries stamped at
\* or after the reading of the clock less days; with days omitted, every
\* entry.  The total is their number, and with none of them the counts are
\* zero and the mappings empty.
C8_Window ==
    (/\ proc = "returned"
     /\ lastOp.op = "get_stats"
     /\ lastOp.raised = ""
     /\ ~lastOp.days.given \/ lastOp.days.d > 0) =>
        LET S == Considered(lastOp.days, lastOp.t)
            stats == out.stats
        IN  /\ out.kind = "stats"
            /\ stats.total_commands = Cardinality(S)
            /\ DOMAIN stats.base_command_counts = {commands[i].base_command : i \in S}
            /\ \A b \in DOMAIN stats.base_command_counts :
                   stats.base_command_counts[b] =
                       Cardinality({i \in S : commands[i].base_command = b})
            /\ DOMAIN stats.full_command_counts = {commands[i].command : i \in S}
            /\ \A c \in DOMAIN stats.full_command_counts :
                   stats.full_command_counts[c] =
                       Cardinality({i \in S : commands[i].command = c})
            /\ stats.unique_base_commands = Cardinality({commands[i].base_command : i \in S})
            /\ DOMAIN stats.last_used = {commands[i].base_command : i \in S}
            /\ \A b \in DOMAIN stats.last_used :
                   /\ \E i \in S : /\ commands[i].base_command = b
                                   /\ commands[i].timestamp = stats.last_used[b]
                   /\ \A i \in S : commands[i].base_command = b =>
                          Timestamp(i) <= FromIsoformat(stats.last_used[b])
            /\ S = {} => /\ stats.total_commands = 0
                         /\ stats.unique_base_commands = 0
                         /\ DOMAIN stats.base_command_counts = {}
                         /\ DOMAIN stats.full_command_counts = {}
                         /\ DOMAIN stats.last_used = {}

\* get_stats(1) counted an entry stamped exactly one day before the reading
\* and left out an older one.
C8_Witness ==
    /\ proc = "returned"
    /\ lastOp.op = "get_stats"
    /\ lastOp.raised = ""
    /\ lastOp.days = Days(1)
    /\ Len(commands) = 2
    /\ \E i, j \in DOMAIN commands :
          /\ Timestamp(i) = lastOp.t - DayUnits
          /\ Timestamp(j) < lastOp.t - DayUnits
    /\ out.stats.total_commands = 1

\* C9: the timestamps of the list are non-decreasing in list order.
C9_TimestampsNonDecreasing ==
    commandsType = "list" =>
        \A i, j \in DOMAIN commands : i < j => Timestamp(i) <= Timestamp(j)

ReadOps == {"get_stats", "show_stats", "show_top", "search_commands", "export_stats"}

\* C10: get_stats, show_stats, show_top, search_commands and export_stats,
\* whatever the format and the output file, leave the list and the file
\* commands.json as they are, and export_stats writes no file.
C10_ReadOnlyOperations ==
    [][(proc = "idle" /\ lastOp'.op \in ReadOps) =>
          /\ commands' = commands
          /\ commandsType' = commandsType
          /\ file' = file
          /\ out'.kind # "written"]_vars

\* C10, amended: get_stats, show_stats, show_top and search_commands leave
\* the list and the file commands.json as they are and write no file;
\* export_stats leaves the list as it is, writes its output to output_file
\* itself when one is given, and so leaves commands.json as it is unless
\* output_file is the path of commands.json, which then holds the export.
C10_ReadOnlyExceptExportFile ==
    [][(proc = "idle" /\ lastOp'.op \in ReadOps) =>
          /\ commands' = commands
          /\ commandsType' = commandsType
          /\ (lastOp'.op # "export_stats" \/ lastOp'.output_file # "commands.json")
                => file' = file
          /\ (lastOp'.op # "export_stats" \/ lastOp'.output_file = "")
                => out'.kind # "written" /\ file' = file
          /\ (lastOp'.op = "export_stats" /\ lastOp'.raised = ""
                 /\ lastOp'.output_file = "commands.json")
                => file'.exists /\ file'.head # "["
          /\ (lastOp'.op = "export_stats" /\ lastOp'.raised = ""
                 /\ lastOp'.output_file = "export.out")
                => out'.kind = "written"]_vars

\* export_stats was given the path of commands.json and a list with an
\* entry: the file no longer holds the list.
C10_Witness ==
    /\ proc = "returned"
    /\ lastOp.op = "export_stats"
    /\ lastOp.output_file = "commands.json"
    /\ Len(commands) >= 1
    /\ LoadCommands(file).type # "list"

====
